---- MODULE Spec2Model ----
(***************************************************************************)
(* A model of flexport-scraper: the FlexportTariffClient of                *)
(* flexport_tariff_client.py (browser session lifecycle, calculate_tariff, *)
(* _extract_results, search_hts_code, the context manager) and the page    *)
(* inspector of inspect_page.py.                                           *)
(*                                                                         *)
(* The browser, the page and the network are the environment: every page   *)
(* operation the code performs either succeeds or raises, and the model    *)
(* chooses between the two.  A page operation on a page that has been      *)
(* closed always raises.  Every attempted page operation of the current    *)
(* call is appended to log with its target element and whether it          *)
(* succeeded.                                                              *)
(***************************************************************************)
EXTENDS Integers, Sequences, FiniteSets, TLC

VARIABLES
    playwright, browser, page,        \* the client's handles; NoHandle is Python's None
    running, openBrowsers, openPages, \* what the client has launched and is still open
    launched,                         \* number of sessions launched so far
    ctx, propagated,                  \* the with statement around the client
    op, pc, outcome, exc,             \* the current / most recent call
    log,                              \* page operations attempted by that call
    today, given_date, entry_date,    \* calculate_tariff's entry_date argument
    date_filled,                      \* what was typed into the date field
    dom,                              \* the result elements the page shows
    results,                          \* the value the call returned
    ipc, handlers,                    \* inspector: position, registered handlers
    api_requests, api_responses,      \* inspector: the two captured lists
    seenRequests, seenResponses,      \* every matching event the page produced, in order
    events,                           \* number of network events so far
    file, writes                      \* page_inspection.json and the number of writes

handles == <<playwright, browser, page>>
envv    == <<running, openBrowsers, openPages, launched>>
withv   == <<ctx, propagated>>
datev   == <<today, given_date, entry_date, date_filled>>
callv   == <<op, pc, outcome, exc, log, dom, results>>
cvars   == <<handles, envv, withv, datev, callv>>
ivars   == <<ipc, handlers, api_requests, api_responses, seenRequests,
             seenResponses, events, file, writes>>
vars    == <<cvars, ivars>>

----------------------------------------------------------------------------
(* Bounds *)

MaxStarts == 2
MaxResults == 2
MaxEvents == 3

----------------------------------------------------------------------------
(* Python values *)

NoHandle == 0

None == [t |-> "None"]
Str(s) == [t |-> "str", v |-> s]
List(s) == [t |-> "list", v |-> s]

\* Python truthiness of an Optional[str]: None and "" are falsy.
Truthy(x) == x.t = "str" /\ x.v # <<>>

Digits == <<"0", "1", "2", "3", "4", "5", "6", "7", "8", "9">>

RECURSIVE DecStr(_)
DecStr(n) == IF n < 10 THEN <<Digits[n + 1]>>
             ELSE DecStr(n \div 10) \o <<Digits[(n % 10) + 1]>>

RECURSIVE ZeroPad(_, _)
ZeroPad(s, w) == IF Len(s) >= w THEN s ELSE ZeroPad(<<"0">> \o s, w)

\* strftime("%Y-%m-%d") without zero padding: a faulty variant of strftime.
strftime_nopad(dt) == DecStr(dt.y) \o <<"-">> \o DecStr(dt.m) \o <<"-">> \o DecStr(dt.d)

\* datetime.strftime("%Y-%m-%d")
strftime(dt) ==
    ZeroPad(DecStr(dt.y), 4) \o <<"-">> \o ZeroPad(DecStr(dt.m), 2)
        \o <<"-">> \o ZeroPad(DecStr(dt.d), 2)

\* The values datetime.now() takes in the model.
Clock == { [y |-> 2026, m |-> 11, d |-> 1], [y |-> 2025, m |-> 3, d |-> 27] }

\* The entry_date arguments callers pass: absent, empty, and the date of main().
EntryDates == { None, Str(<<>>),
                Str(<<"2", "0", "2", "5", "-", "0", "1", "-", "1", "5">>) }

----------------------------------------------------------------------------
(* Exceptions *)

NoExc == "none"
RuntimeErrorNotStarted == "RuntimeError: Browser not started"
PlaywrightError == "playwright error"
SearchError == "Exception: Error searching for HTS codes"

CouldNotFind(el) ==
    CASE el = "hts"     -> "Exception: Could not find HTS code input field"
      [] el = "country" -> "Exception: Could not find country selector"
      [] el = "value"   -> "Exception: Could not find shipment value input"
      [] el = "button"  -> "Exception: Could not find calculate button"

----------------------------------------------------------------------------
(* The log of attempted page operations *)

Min(S) == CHOOSE x \in S : \A y \in S : x <= y

Did(o, el) == [op |-> o, el |-> el, ok |-> TRUE]
Failed(e) == [e EXCEPT !.ok = FALSE]

\* The operations attempted when operation k of ops raises (k = 0: none raises).
Attempt(ops, k) == IF k = 0 THEN ops ELSE SubSeq(ops, 1, k - 1) \o <<Failed(ops[k])>>

\* What a page operation can do: succeed only on a page that is still open.
PageOutcomes(n) == IF page \in openPages THEN 0..n ELSE {1}

----------------------------------------------------------------------------
(* The session: __init__, start, close *)

\* The result keys _extract_results looks for on the page.
Scraped == {"duty_rate", "total_landed_cost", "hts_description"}

\* The guard left out: a faulty variant of NotStarted.
NotStarted_never == FALSE

\* `if not self.page`
NotStarted == page = NoHandle

\* The state a call leaves when it starts: nothing attempted, nothing returned.
Begin(name) ==
    /\ op' = name
    /\ propagated' = NoExc
    /\ log' = <<>>
    /\ results' = None
    /\ dom' = [k \in Scraped |-> None]

Returns(v) == pc' = "idle" /\ outcome' = "returned" /\ exc' = NoExc /\ results' = v
Raises(e) == pc' = "idle" /\ outcome' = "raised" /\ exc' = e

\* start(): playwright, browser and page are launched and the handles assigned.
start ==
    LET id == launched + 1 IN
    /\ launched' = id
    /\ playwright' = id /\ running' = running \cup {id}
    /\ browser' = id /\ openBrowsers' = openBrowsers \cup {id}
    /\ page' = id /\ openPages' = openPages \cup {id}

\* close() without the browser.close() call: a faulty variant of close.
close_keeps_browser ==
    /\ openPages' = openPages \ {page}
    /\ openBrowsers' = openBrowsers
    /\ running' = running \ {playwright}
    /\ UNCHANGED <<handles, launched>>

\* close(): each handle that is set is closed; the handles themselves are kept.
close ==
    /\ openPages' = IF page # NoHandle THEN openPages \ {page} ELSE openPages
    /\ openBrowsers' = IF browser # NoHandle THEN openBrowsers \ {browser} ELSE openBrowsers
    /\ running' = IF playwright # NoHandle THEN running \ {playwright} ELSE running
    /\ UNCHANGED <<handles, launched>>

\* An exception raised in the body of a with statement leaves the body at once.
Leaving == ctx = "body" /\ outcome = "raised"

\* client.start()
Start ==
    /\ pc = "idle" /\ ctx = "none" /\ launched < MaxStarts
    /\ start
    /\ Begin("start") /\ pc' = "idle" /\ outcome' = "returned" /\ exc' = NoExc
    /\ UNCHANGED <<ctx, datev, ivars>>

\* client.close()
Close ==
    /\ pc = "idle" /\ ctx = "none"
    /\ close
    /\ Begin("close") /\ pc' = "idle" /\ outcome' = "returned" /\ exc' = NoExc
    /\ UNCHANGED <<ctx, datev, ivars>>

\* __exit__ returns None, which is falsy: the body's exception is not suppressed.
ExitSuppresses == FALSE

\* with FlexportTariffClient(...) as client:   (__enter__)
Enter ==
    /\ pc = "idle" /\ ctx = "none" /\ launched < MaxStarts
    /\ start
    /\ ctx' = "body"
    /\ Begin("enter") /\ pc' = "idle" /\ outcome' = "returned" /\ exc' = NoExc
    /\ UNCHANGED <<datev, ivars>>

\* The with block is left, by the end of its body or by an exception (__exit__).
Exit ==
    /\ pc = "idle" /\ ctx = "body"
    /\ close
    /\ ctx' = "none"
    /\ propagated' = IF outcome = "raised" /\ ~ExitSuppresses THEN exc ELSE NoExc
    /\ op' = "exit"
    /\ UNCHANGED <<pc, outcome, exc, log, dom, results, datev, ivars>>

----------------------------------------------------------------------------
(* calculate_tariff *)

InitialResults ==
    [k \in {"hts_code", "hts_description", "country_of_origin", "duty_rate",
            "duty_amount", "total_landed_cost", "raw_html"} |-> None]
        @@ ("applicable_tariffs" :> List(<<>>))

Html == Str("<html>")
Text == Str("text")

\* One step of the call: the operations attempted, then the next position.
Step(done, next) ==
    /\ log' = log \o done
    /\ pc' = next /\ outcome' = "none" /\ exc' = NoExc
    /\ UNCHANGED <<op, dom, results>>

\* One step of the call that raises: the call ends.
Abort(done, e) ==
    /\ log' = log \o done
    /\ Raises(e)
    /\ UNCHANGED <<op, dom, results>>

\* Operations outside any try block: a playwright error propagates to the caller.
Unguarded(ops, k, next) ==
    IF k = 0 THEN Step(ops, next) ELSE Abort(Attempt(ops, k), PlaywrightError)

\* A try block that waits a second time before giving up: a faulty variant of Try.
Try_retries(ops, k, next, e) ==
    IF k = 0 THEN Step(ops, next) ELSE Abort(Attempt(ops, k) \o Attempt(ops, k), e)

\* A try block whose except clause does not raise: a faulty variant of Try.
Try_continues(ops, k, next, e) == Step(Attempt(ops, k), next)

\* A try block around ops whose except clause raises e.  wait_for_selector, called
\* with its default state, returns the element or raises; it never returns None, so
\* the `if element:` tests of the try blocks always pass.
Try(ops, k, next, e) == IF k = 0 THEN Step(ops, next) ELSE Abort(Attempt(ops, k), e)

\* The guard and the default of entry_date (lines 95-100).
calculate_tariff(d, now) ==
    /\ pc = "idle" /\ ~Leaving
    /\ Begin("calculate_tariff")
    /\ given_date' = d
    /\ date_filled' = None
    /\ IF NotStarted
         THEN /\ Raises(RuntimeErrorNotStarted)
              /\ UNCHANGED <<today, entry_date>>
         ELSE /\ pc' = "goto" /\ outcome' = "none" /\ exc' = NoExc
              /\ IF Truthy(d)
                   THEN entry_date' = d /\ UNCHANGED today
                   ELSE today' = now /\ entry_date' = Str(strftime(now))
    /\ UNCHANGED <<handles, envv, ctx, ivars>>

\* self.page.goto(self.BASE_URL)
Navigate(k) ==
    /\ pc = "goto"
    /\ Unguarded(<<Did("goto", "")>>, k, "load")
    /\ UNCHANGED <<handles, envv, withv, datev, ivars>>

\* self.page.wait_for_load_state("networkidle")
WaitLoad(k) ==
    /\ pc = "load"
    /\ Unguarded(<<Did("wait_for_load_state", "")>>, k, "hts")
    /\ UNCHANGED <<handles, envv, withv, datev, ivars>>

\* The HTS code input (lines 110-120).
FillHts(k) ==
    /\ pc = "hts"
    /\ Try(<<Did("wait_for_selector", "hts"), Did("fill", "hts")>>, k, "country",
           CouldNotFind("hts"))
    /\ UNCHANGED <<handles, envv, withv, datev, ivars>>

\* What is done with the country element, by its tag name (lines 130-137).
CountryOps(tag) ==
    <<Did("wait_for_selector", "country"), Did("evaluate", "country")>> \o
    IF tag = "SELECT"
      THEN <<Did("select_option", "country")>>
      ELSE <<Did("fill", "country"), Did("press", "ArrowDown"), Did("press", "Enter")>>

\* The country of origin (lines 123-139).
SelectCountry(tag, k) ==
    /\ pc = "country"
    /\ k <= Len(CountryOps(tag))
    /\ Try(CountryOps(tag), k, "value", CouldNotFind("country"))
    /\ UNCHANGED <<handles, envv, withv, datev, ivars>>

\* The shipment value input (lines 142-150).
FillValue(k) ==
    /\ pc = "value"
    /\ Try(<<Did("wait_for_selector", "value"), Did("fill", "value")>>, k, "date",
           CouldNotFind("value"))
    /\ UNCHANGED <<handles, envv, withv, datev, ivars>>

\* The date step with its exception propagated: a faulty variant of DateStep.
DateStep_raises(ops, k) ==
    IF k = 0 THEN Step(ops, "button") ELSE Abort(Attempt(ops, k), PlaywrightError)

\* `except Exception: pass`: whatever the date step did, the call goes on.
DateStep(ops, k) == Step(Attempt(ops, k), "button")

\* The entry date, if the page has a date field (lines 153-161).
FillDate(present, k) ==
    LET ops == <<Did("query_selector", "date")>> \o
               (IF present THEN <<Did("fill", "date")>> ELSE <<>>)
    IN  /\ pc = "date"
        /\ k <= Len(ops)
        /\ DateStep(ops, k)
        /\ date_filled' = IF present /\ k = 0 THEN entry_date ELSE date_filled
        /\ UNCHANGED <<handles, envv, withv, today, given_date, entry_date, ivars>>

\* The calculate button (lines 164-172).
ClickCalculate(k) ==
    /\ pc = "button"
    /\ Try(<<Did("wait_for_selector", "button"), Did("click", "button")>>, k, "results",
           CouldNotFind("button"))
    /\ UNCHANGED <<handles, envv, withv, datev, ivars>>

\* self.page.wait_for_load_state("networkidle"); the page now shows d.
WaitResults(d, k) ==
    /\ pc = "results"
    /\ log' = log \o Attempt(<<Did("wait_for_load_state", "")>>, k)
    /\ IF k = 0
         THEN pc' = "extract" /\ outcome' = "none" /\ exc' = NoExc /\ dom' = d
         ELSE Raises(PlaywrightError) /\ dom' = dom
    /\ UNCHANGED <<op, results>>
    /\ UNCHANGED <<handles, envv, withv, datev, ivars>>

\* The page operations of _extract_results on a page showing d (lines 206-230).
ExtractOps(d) ==
    LET Look(key) == <<Did("query_selector", key)>> \o
                     (IF d[key] # None THEN <<Did("inner_text", key)>> ELSE <<>>)
    IN  <<Did("content", "")>> \o Look("duty_rate") \o Look("total_landed_cost")
            \o Look("hts_description")

\* The total's text stored under duty_rate: a faulty variant of Assign.
Assign_wrong_key(res, e, d) ==
    CASE e.ok /\ e.op = "content"    -> [res EXCEPT !["raw_html"] = Html]
      [] e.ok /\ e.op = "inner_text" ->
            [res EXCEPT ![IF e.el = "total_landed_cost" THEN "duty_rate" ELSE e.el] = d[e.el]]
      [] OTHER -> res

\* The assignment one operation of _extract_results leads to.
Assign(res, e, d) ==
    CASE e.ok /\ e.op = "content"    -> [res EXCEPT !["raw_html"] = Html]
      [] e.ok /\ e.op = "inner_text" -> [res EXCEPT ![e.el] = d[e.el]]
      [] OTHER -> res

RECURSIVE Assigned(_, _, _)
Assigned(res, done, d) ==
    IF done = <<>> THEN res ELSE Assigned(Assign(res, Head(done), d), Tail(done), d)

\* _extract_results with the except clause dropping the error: a faulty variant.
extract_results_silent(d, k) == Assigned(InitialResults, Attempt(ExtractOps(d), k), d)

\* _extract_results: an exception is caught and recorded under "error".
extract_results(d, k) ==
    LET res == Assigned(InitialResults, Attempt(ExtractOps(d), k), d)
    IN  IF k = 0 THEN res ELSE res @@ ("error" :> Str("Error extracting results"))

\* results = self._extract_results(); return results
ExtractResults(k) ==
    /\ pc = "extract"
    /\ k <= Len(ExtractOps(dom))
    /\ log' = log \o Attempt(ExtractOps(dom), k)
    /\ Returns(extract_results(dom, k))
    /\ UNCHANGED <<op, dom>>
    /\ UNCHANGED <<handles, envv, withv, datev, ivars>>

Doms == [Scraped -> {None, Text}]

----------------------------------------------------------------------------
(* search_hts_code *)

\* A search result element: the text of its code child (None: no such child), its text.
Elements == { [code |-> None, text |-> Text], [code |-> Str("code"), text |-> Text] }

ResultLists == UNION { [1..n -> Elements] : n \in 0..MaxResults }

\* The page operations line 274-275 perform on one result element.
ElementOps(e) ==
    <<Did("query_selector", "code")>> \o
    (IF e.code # None THEN <<Did("query_selector", "code"), Did("inner_text", "code")>>
                      ELSE <<>>) \o
    <<Did("inner_text", "result")>>

RECURSIVE AllElementOps(_)
AllElementOps(es) ==
    IF es = <<>> THEN <<>> ELSE ElementOps(Head(es)) \o AllElementOps(Tail(es))

\* The page operations of the try block when the page shows the results es
\* (lines 255-276).
SearchOps(es) ==
    <<Did("wait_for_selector", "search"), Did("fill", "search"), Did("press", "Enter"),
      Did("wait_for_load_state", ""), Did("query_selector_all", "results")>>
        \o AllElementOps(es)

\* The guard of search_hts_code (lines 247-248).
search_hts_code ==
    /\ pc = "idle" /\ ~Leaving
    /\ Begin("search_hts_code")
    /\ IF NotStarted
         THEN Raises(RuntimeErrorNotStarted)
         ELSE pc' = "search_goto" /\ outcome' = "none" /\ exc' = NoExc
    /\ UNCHANGED <<handles, envv, ctx, datev, ivars>>

\* self.page.goto(self.BASE_URL); self.page.wait_for_load_state("networkidle")
SearchNavigate(k) ==
    /\ pc = "search_goto"
    /\ Unguarded(<<Did("goto", ""), Did("wait_for_load_state", "")>>, k, "search_try")
    /\ UNCHANGED <<handles, envv, withv, datev, ivars>>

\* The try block: the search, and the list built from the result elements es.
SearchTry(es, k) ==
    /\ pc = "search_try"
    /\ k <= Len(SearchOps(es))
    /\ log' = log \o Attempt(SearchOps(es), k)
    /\ IF k = 0
         THEN Returns(List([i \in 1..Len(es) |->
                  [hts_code |-> es[i].code, description |-> es[i].text]]))
         ELSE Raises(SearchError) /\ results' = results
    /\ UNCHANGED <<op, dom>>
    /\ UNCHANGED <<handles, envv, withv, datev, ivars>>

----------------------------------------------------------------------------
(* inspect_page.py *)

Upper == <<"A", "B", "C", "D", "E", "F", "G", "H", "I", "J", "K", "L", "M",
           "N", "O", "P", "Q", "R", "S", "T", "U", "V", "W", "X", "Y", "Z">>
Lower == <<"a", "b", "c", "d", "e", "f", "g", "h", "i", "j", "k", "l", "m",
           "n", "o", "p", "q", "r", "s", "t", "u", "v", "w", "x", "y", "z">>

\* str.lower()
lower(s) ==
    [i \in 1..Len(s) |->
        IF \E j \in 1..Len(Upper) : Upper[j] = s[i]
          THEN Lower[CHOOSE j \in 1..Len(Upper) : Upper[j] = s[i]]
          ELSE s[i]]

\* `sub in s`
In(sub, s) == \E i \in 1..(Len(s) - Len(sub) + 1) : SubSeq(s, i, i + Len(sub) - 1) = sub

\* 'api' in url.lower() or 'graphql' in url.lower()
IsApi(url) ==
    \/ In(<<"a", "p", "i">>, lower(url))
    \/ In(<<"g", "r", "a", "p", "h", "q", "l">>, lower(url))

\* The URLs the page requests: /API, /graphql, /app.js
Urls == { <<"/", "A", "P", "I">>,
          <<"/", "g", "r", "a", "p", "h", "q", "l">>,
          <<"/", "a", "p", "p", ".", "j", "s">> }

NotWritten == [written |-> FALSE]

\* browser = p.chromium.launch(...); page = browser.new_page(); the two empty lists
ILaunch ==
    /\ ipc = "start"
    /\ api_requests' = <<>> /\ api_responses' = <<>>
    /\ ipc' = "register"
    /\ UNCHANGED <<handlers, seenRequests, seenResponses, events, file, writes, cvars>>

\* page.on("request", handle_request); page.on("response", handle_response)
IRegister ==
    /\ ipc = "register"
    /\ handlers' = {"request", "response"}
    /\ ipc' = "goto"
    /\ UNCHANGED <<api_requests, api_responses, seenRequests, seenResponses, events,
                   file, writes, cvars>>

\* page.goto(...): the navigation starts
IGoto ==
    /\ ipc = "goto"
    /\ ipc' = "loading"
    /\ UNCHANGED <<handlers, api_requests, api_responses, seenRequests, seenResponses,
                   events, file, writes, cvars>>

\* page.wait_for_load_state("networkidle") returns
ILoaded ==
    /\ ipc = "loading"
    /\ ipc' = "analyze"
    /\ UNCHANGED <<handlers, api_requests, api_responses, seenRequests, seenResponses,
                   events, file, writes, cvars>>

\* The inputs, selects, buttons and frameworks are read from the page (lines 66-118).
IAnalyze ==
    /\ ipc = "analyze"
    /\ ipc' = "save"
    /\ UNCHANGED <<handlers, api_requests, api_responses, seenRequests, seenResponses,
                   events, file, writes, cvars>>

\* findings = {...}; json.dump(findings, ...) into page_inspection.json
ISave ==
    /\ ipc = "save"
    /\ file' = [written |-> TRUE, api_requests |-> api_requests,
                api_responses |-> api_responses]
    /\ writes' = writes + 1
    /\ ipc' = "input"
    /\ UNCHANGED <<handlers, api_requests, api_responses, seenRequests, seenResponses,
                   events, cvars>>

\* input(): the user presses Enter
IPressEnter ==
    /\ ipc = "input"
    /\ ipc' = "closing"
    /\ UNCHANGED <<handlers, api_requests, api_responses, seenRequests, seenResponses,
                   events, file, writes, cvars>>

\* browser.close()
IClose ==
    /\ ipc = "closing"
    /\ ipc' = "done"
    /\ UNCHANGED <<handlers, api_requests, api_responses, seenRequests, seenResponses,
                   events, file, writes, cvars>>

\* The page is navigating or showing the site, up to the moment the user presses
\* Enter: it can produce network traffic, and a registered handler runs for each event.
Live == ipc \in {"loading", "analyze", "save", "input"}

\* handle_request(request)
handle_request(request) ==
    IF IsApi(request.url)
      THEN api_requests' = Append(api_requests, request)
      ELSE api_requests' = api_requests

\* handle_response(response)
handle_response(response) ==
    IF IsApi(response.url)
      THEN api_responses' = Append(api_responses, response)
      ELSE api_responses' = api_responses

\* The page sends a request.
OnRequest(url, method) ==
    LET request == [url |-> url, method |-> method] IN
    /\ Live /\ events < MaxEvents
    /\ events' = events + 1
    /\ seenRequests' = IF IsApi(url) THEN Append(seenRequests, request) ELSE seenRequests
    /\ IF "request" \in handlers THEN handle_request(request)
                                 ELSE api_requests' = api_requests
    /\ UNCHANGED <<ipc, handlers, api_responses, seenResponses, file, writes, cvars>>

\* The page receives a response.
OnResponse(url, status) ==
    LET response == [url |-> url, status |-> status] IN
    /\ Live /\ events < MaxEvents
    /\ events' = events + 1
    /\ seenResponses' = IF IsApi(url) THEN Append(seenResponses, response) ELSE seenResponses
    /\ IF "response" \in handlers THEN handle_response(response)
                                  ELSE api_responses' = api_responses
    /\ UNCHANGED <<ipc, handlers, api_requests, seenRequests, file, writes, cvars>>

----------------------------------------------------------------------------
(* Specifications *)

Epoch == [y |-> 1970, m |-> 1, d |-> 1]

\* __init__ (lines 36-40), and the inspector before its first statement.
Init ==
    /\ playwright = NoHandle /\ browser = NoHandle /\ page = NoHandle
    /\ running = {} /\ openBrowsers = {} /\ openPages = {}
    /\ launched = 0
    /\ ctx = "none" /\ propagated = NoExc
    /\ op = "init" /\ pc = "idle" /\ outcome = "returned" /\ exc = NoExc
    /\ log = <<>>
    /\ today = Epoch /\ given_date = None /\ entry_date = None /\ date_filled = None
    /\ dom = [key \in Scraped |-> None]
    /\ results = None
    /\ ipc = "start" /\ handlers = {}
    /\ api_requests = <<>> /\ api_responses = <<>>
    /\ seenRequests = <<>> /\ seenResponses = <<>>
    /\ events = 0
    /\ file = NotWritten /\ writes = 0

Next ==
    \/ Start
    \/ Close
    \/ Enter
    \/ Exit
    \/ \E d \in EntryDates, now \in Clock : calculate_tariff(d, now)
    \/ \E k \in PageOutcomes(1) : Navigate(k)
    \/ \E k \in PageOutcomes(1) : WaitLoad(k)
    \/ \E k \in PageOutcomes(2) : FillHts(k)
    \/ \E tag \in {"SELECT", "INPUT"}, k \in PageOutcomes(5) : SelectCountry(tag, k)
    \/ \E k \in PageOutcomes(2) : FillValue(k)
    \/ \E present \in BOOLEAN, k \in PageOutcomes(2) : FillDate(present, k)
    \/ \E k \in PageOutcomes(2) : ClickCalculate(k)
    \/ \E d \in Doms, k \in PageOutcomes(1) : WaitResults(d, k)
    \/ \E k \in PageOutcomes(7) : ExtractResults(k)
    \/ search_hts_code
    \/ \E k \in PageOutcomes(2) : SearchNavigate(k)
    \/ \E es \in ResultLists, k \in 0..(5 + 4 * MaxResults) : SearchTry(es, k)

Spec == Init /\ [][Next]_vars

NextInspect ==
    \/ ILaunch
    \/ IRegister
    \/ IGoto
    \/ ILoaded
    \/ IAnalyze
    \/ ISave
    \/ IPressEnter
    \/ IClose
    \/ \E url \in Urls, method \in {"GET", "POST"} : OnRequest(url, method)
    \/ \E url \in Urls, status \in {200, 404} : OnResponse(url, status)

SpecInspect == Init /\ [][NextInspect]_vars

----------------------------------------------------------------------------
(* Properties *)

At(o, el) == { i \in DOMAIN log : log[i].op = o /\ log[i].el = el }
Before(A, B) == \A a \in A, b \in B : a < b
IsExtract(e) ==
    \/ e.op \in {"content", "inner_text"}
    \/ e.op = "query_selector" /\ e.el \in Scraped
Required == {"hts", "country", "value", "button"}

\* C1: on a client that was never started (page is None), calculate_tariff and
\* search_hts_code raise the RuntimeError at once: no page operation is attempted
\* and the three handles, and what is open, stay as they were (all None).
C1_NotStartedRaises ==
    [][ (pc = "idle" /\ page = NoHandle
            /\ op' \in {"calculate_tariff", "search_hts_code"})
        => /\ pc' = "idle" /\ outcome' = "raised" /\ exc' = RuntimeErrorNotStarted
           /\ log' = <<>>
           /\ handles' = handles /\ envv' = envv
           /\ playwright' = NoHandle /\ browser' = NoHandle /\ page' = NoHandle ]_vars

C1_Witness ==
    /\ op = "calculate_tariff" /\ page = NoHandle
    /\ outcome = "raised" /\ exc = RuntimeErrorNotStarted

\* C2: in calculate_tariff a failed wait for a required element is the last thing the
\* call does: the call has raised the exception naming that element and returned no
\* result; each required selector is waited for at most once and the page is
\* navigated exactly once, as the first operation.
C2_FailedWaitAborts ==
    op = "calculate_tariff" =>
        /\ \A i \in DOMAIN log :
              (log[i].op = "wait_for_selector" /\ ~log[i].ok)
              => /\ i = Len(log)
                 /\ pc = "idle" /\ outcome = "raised"
                 /\ exc = CouldNotFind(log[i].el)
                 /\ results = None
        /\ \A el \in Required : Cardinality(At("wait_for_selector", el)) <= 1
        /\ log # <<>> => At("goto", "") = {1}

C2_Witness ==
    /\ op = "calculate_tariff" /\ outcome = "raised"
    /\ exc = CouldNotFind("value")
    /\ log[Len(log)] = Failed(Did("wait_for_selector", "value"))
    /\ At("fill", "hts") # {}

\* C3: the with statement starts the session before its body runs and keeps it open
\* throughout the body; when the block is left, normally or by an exception of the
\* body, the page and the browser are closed and playwright is stopped, and the
\* body's exception, if any, propagates.
C3_ContextManager ==
    [][ /\ ctx' = "body"
            => page' \in openPages' /\ browser' \in openBrowsers' /\ playwright' \in running'
        /\ (ctx = "body" /\ ctx' = "none")
            => /\ page \notin openPages' /\ browser \notin openBrowsers'
               /\ playwright \notin running'
               /\ propagated' = (IF outcome = "raised" THEN exc ELSE NoExc) ]_vars

C3_Witness ==
    /\ op = "exit" /\ propagated = CouldNotFind("hts")
    /\ page # NoHandle /\ page \notin openPages
    /\ browser \notin openBrowsers /\ playwright \notin running

\* C4: at most one browser and one page launched by the client are open, and each
\* open one is the one the client's handle refers to.
C4_SinglePage ==
    /\ Cardinality(openBrowsers) <= 1 /\ Cardinality(openPages) <= 1
    /\ openBrowsers \subseteq {browser}
    /\ openPages \subseteq {page}

\* C5: a calculate_tariff call that returned did, in this order and once each:
\* goto, wait for network idle, fill HTS code, set the country, fill the value,
\* (possibly) fill the date, click the button, wait for network idle, extract.
C5_StepsInOrder ==
    (op = "calculate_tariff" /\ outcome = "returned") =>
        LET nav     == At("goto", "")
            idle    == At("wait_for_load_state", "")
            hts     == At("fill", "hts")
            country == At("select_option", "country") \cup At("fill", "country")
            value   == At("fill", "value")
            date    == At("fill", "date")
            click   == At("click", "button")
            extract == { i \in DOMAIN log : IsExtract(log[i]) }
        IN  /\ nav = {1}
            /\ Cardinality(idle) = 2 /\ 2 \in idle
            /\ Cardinality(hts) = 1 /\ Cardinality(country) = 1
            /\ Cardinality(value) = 1 /\ Cardinality(click) = 1
            /\ Cardinality(date) <= 1
            /\ \A i \in nav \cup idle \cup hts \cup country \cup value \cup click : log[i].ok
            /\ Before({2}, hts) /\ Before(hts, country) /\ Before(country, value)
            /\ Before(value, date) /\ Before(date, click) /\ Before(value, click)
            /\ Before(click, idle \ {2}) /\ Before(idle, extract)
            /\ extract # {}

C5_Witness ==
    /\ op = "calculate_tariff" /\ outcome = "returned"
    /\ At("fill", "date") # {} /\ At("select_option", "country") # {}
    /\ "error" \notin DOMAIN results

\* C6: a dictionary calculate_tariff returns has all eight keys; a scraped key holds
\* the text of its element when it is not None, and None when the page has no such
\* element; the keys no selector is read for keep their initial values.
C6_ResultKeys ==
    (op = "calculate_tariff" /\ outcome = "returned") =>
        /\ DOMAIN InitialResults \subseteq DOMAIN results
        /\ \A key \in Scraped :
              /\ dom[key] = None => results[key] = None
              /\ results[key] # None => (dom[key] # None /\ results[key] = dom[key])
        /\ \A key \in DOMAIN InitialResults \ (Scraped \cup {"raw_html"}) :
              results[key] = InitialResults[key]

C6_Witness ==
    /\ op = "calculate_tariff" /\ outcome = "returned"
    /\ results["duty_rate"] = Text
    /\ dom["total_landed_cost"] = None /\ results["total_landed_cost"] = None
    /\ results["hts_description"] = Text

\* C7 as stated: a call that returned had no failure (the optional date step aside)
\* and its dictionary carries no error marker.
C7_NoPartialFailure ==
    (op = "calculate_tariff" /\ outcome = "returned") =>
        /\ "error" \notin DOMAIN results
        /\ \A i \in DOMAIN log : log[i].ok \/ log[i].el = "date"

\* C7 amended: a failure before the results are read (the optional date step aside)
\* is raised; a failure while the results are read is not: the call returns the
\* dictionary with an "error" key exactly then, holding what was read before the
\* failure and the initial values for the rest.
C7_FailureSemantics ==
    (op = "calculate_tariff" /\ pc = "idle") =>
        /\ (\E i \in DOMAIN log : ~log[i].ok /\ log[i].el # "date" /\ ~IsExtract(log[i]))
              => outcome = "raised"
        /\ outcome = "returned" =>
              /\ "error" \in DOMAIN results
                    <=> \E i \in DOMAIN log : ~log[i].ok /\ IsExtract(log[i])
              /\ \A i \in DOMAIN log : (~log[i].ok /\ IsExtract(log[i])) => i = Len(log)
              /\ results["raw_html"] = (IF At("content", "") # {} /\ log[Min(At("content", ""))].ok
                                          THEN Html ELSE None)
              /\ \A key \in Scraped :
                    results[key] = (IF \E i \in At("inner_text", key) : log[i].ok
                                      THEN dom[key] ELSE None)

C7_Witness ==
    /\ op = "calculate_tariff" /\ outcome = "returned"
    /\ "error" \in DOMAIN results
    /\ results["duty_rate"] = Text
    /\ dom["hts_description"] = Text /\ results["hts_description"] = None

\* C8: the handlers are registered before the navigation; the captured lists hold
\* exactly the matching events, in arrival order; the file is written once and, when
\* the user has pressed Enter, holds every matching event of the run.
C8_FileHoldsAllTraffic ==
    /\ ipc \notin {"start", "register"} => handlers = {"request", "response"}
    /\ api_requests = seenRequests /\ api_responses = seenResponses
    /\ ipc \in {"input", "closing", "done"} => writes = 1
    /\ ipc \in {"closing", "done"} =>
          /\ file.written
          /\ file.api_requests = seenRequests
          /\ file.api_responses = seenResponses

\* C9: the date step never ends the call: whatever it did, the call is at the button
\* step next; a date field that was filled holds the caller's entry_date, or today's
\* date as YYYY-MM-DD when that is None or empty; every other failed form step is the
\* last thing the call did, and the call raised.
DigitsOnly(s) == \A i \in DOMAIN s : \E j \in DOMAIN Digits : Digits[j] = s[i]
RECURSIVE Num(_)
Num(s) == IF s = <<>> THEN 0
          ELSE 10 * Num(SubSeq(s, 1, Len(s) - 1))
                 + ((CHOOSE j \in DOMAIN Digits : Digits[j] = s[Len(s)]) - 1)
IsoOf(s, dt) ==
    /\ Len(s) = 10 /\ s[5] = "-" /\ s[8] = "-"
    /\ DigitsOnly(SubSeq(s, 1, 4)) /\ Num(SubSeq(s, 1, 4)) = dt.y
    /\ DigitsOnly(SubSeq(s, 6, 7)) /\ Num(SubSeq(s, 6, 7)) = dt.m
    /\ DigitsOnly(SubSeq(s, 9, 10)) /\ Num(SubSeq(s, 9, 10)) = dt.d

C9_DateOptional ==
    op = "calculate_tariff" =>
        /\ (log # <<>> /\ log[Len(log)].el = "date") => (pc = "button" /\ outcome = "none")
        /\ IF \E i \in At("fill", "date") : log[i].ok
             THEN /\ date_filled.t = "str"
                  /\ IF Truthy(given_date) THEN date_filled = given_date
                                           ELSE IsoOf(date_filled.v, today)
             ELSE date_filled = None
        /\ \A i \in DOMAIN log :
              (~log[i].ok /\ log[i].el # "date" /\ ~IsExtract(log[i]))
              => (i = Len(log) /\ outcome = "raised")

C9_Witness ==
    /\ op = "calculate_tariff" /\ outcome = "returned"
    /\ \E i \in At("fill", "date") : ~log[i].ok
    /\ At("click", "button") # {}
    /\ given_date = None

====
